---- MODULE Spec2Model ----
(***************************************************************************)
(* Model of aoc-input-build (src/src/lib.rs, src/src/error.rs): the        *)
(* download_inputs orchestrator with day discovery, cache index, release   *)
(* gate, fetcher and the cargo_error reporting policy.                     *)
(*                                                                         *)
(* File names and day identifiers are sequences of one-character strings,  *)
(* so that file_stem, the day regex, the i8 parse and the "{day}.txt"      *)
(* formatting are computed and not assumed.  Instants are seconds since    *)
(* 2015-01-01T00:00:00Z.                                                   *)
(***************************************************************************)
EXTENDS Integers, Sequences, FiniteSets, Bags, TLC

\* ------------------------------------------------------------------ bounds
MaxSrcEntries == 3    \* entries of <root>/src/
MaxCacheEntries == 1  \* entries of <root>/input/ before the first run

\* ------------------------------------------------- file names (as inputs)
day00_rs  == <<"d","a","y","0","0",".","r","s">>
day05_rs  == <<"d","a","y","0","5",".","r","s">>
day07_rs  == <<"d","a","y","0","7",".","r","s">>
day07_dir == <<"d","a","y","0","7">>
day13_rs  == <<"d","a","y","1","3",".","r","s">>
day31_rs  == <<"d","a","y","3","1",".","r","s">>
notes_txt == <<"n","o","t","e","s",".","t","x","t">>

day07_md      == <<"d","a","y","0","7",".","m","d">>
day13_txt_bak == <<"d","a","y","1","3",".","t","x","t",".","b","a","k">>

\* names an entry of <root>/src/ may have
SrcPool == {day00_rs, day05_rs, day07_rs, day07_dir, day13_rs, day31_rs, notes_txt}
\* names an entry of <root>/input/ may have before the first run
CachePool == {day07_md, day13_txt_bak}

\* ------------------------------------------------------- pure functions
Digits == {"0","1","2","3","4","5","6","7","8","9"}

DigitVal(c) ==
    CASE c = "0" -> 0 [] c = "1" -> 1 [] c = "2" -> 2 [] c = "3" -> 3
      [] c = "4" -> 4 [] c = "5" -> 5 [] c = "6" -> 6 [] c = "7" -> 7
      [] c = "8" -> 8 [] c = "9" -> 9

\* index of the last '.' of a name, 0 when there is none
LastDot(name) ==
    LET dots == {i \in 1..Len(name) : name[i] = "."}
    IN  IF dots = {} THEN 0 ELSE CHOOSE i \in dots : \A j \in dots : j <= i

\* Path::file_stem: the whole name when it has no '.', or only a leading
\* one; otherwise the part before the last '.'
file_stem(name) ==
    LET i == LastDot(name)
    IN  IF i <= 1 THEN name ELSE SubSeq(name, 1, i - 1)

\* mutant of DAY_REGEX_is_match: any two digits (^day[0-9][0-9]$)
DAY_REGEX_is_match_two_digits(name) ==
    /\ Len(name) = 5
    /\ SubSeq(name, 1, 3) = <<"d","a","y">>
    /\ name[4] \in Digits
    /\ name[5] \in Digits

\* DAY_REGEX = ^day[0-2][0-9]$
DAY_REGEX_is_match(name) ==
    /\ Len(name) = 5
    /\ SubSeq(name, 1, 3) = <<"d","a","y">>
    /\ name[4] \in {"0","1","2"}
    /\ name[5] \in Digits

\* decimal value of a digit string
RECURSIVE DecimalValue(_)
DecimalValue(s) ==
    IF s = <<>> THEN 0
    ELSE 10 * DecimalValue(SubSeq(s, 1, Len(s) - 1)) + DigitVal(s[Len(s)])

I8_MAX == 127

\* str::parse::<i8> on an unsigned digit string; -1 stands for Err
parse_i8(s) ==
    IF s # <<>> /\ (\A i \in 1..Len(s) : s[i] \in Digits)
    THEN LET v == DecimalValue(s) IN IF v <= I8_MAX THEN v ELSE -1
    ELSE -1

\* mutant of DayDigits: day[4..]
DayDigits_from_4(day) == SubSeq(day, 5, Len(day))

\* day[3..]
DayDigits(day) == SubSeq(day, 4, Len(day))

\* mutant of CacheFileName: a name whose stem is not the identifier
CacheFileName_double_ext(day) == day \o <<".","i","n",".","t","x","t">>

\* format!("{day}.txt")
CacheFileName(day) == day \o <<".","t","x","t">>

\* ------------------------------------------------------------- calendar
SecondsPerDay == 86400
SecondsPerHour == 3600
AOC_RELEASE_MONTH == 12
AOC_RELEASE_HOUR == 0
\* America/New_York is on standard time, UTC-05:00, throughout December
AOC_RELEASE_TZ_HoursWestOfUTC == 5
AOC_FIRST_YEAR == 2015
\* instants count seconds from January 1 of this year, 00:00 UTC
EpochYear == AOC_FIRST_YEAR
SHORT_CALENDAR_YEAR == 2025
SHORT_CALENDAR_DAYS == 12
FULL_CALENDAR_DAYS == 25

IsLeap(y) == (y % 4 = 0 /\ y % 100 # 0) \/ y % 400 = 0

\* leap years in 1..y-1
LeapsBefore(y) == ((y - 1) \div 4) - ((y - 1) \div 100) + ((y - 1) \div 400)

EpochLeaps == LeapsBefore(EpochYear)

\* days from the epoch to January 1 of y
DaysBeforeYear(y) == 365 * (y - EpochYear) + LeapsBefore(y) - EpochLeaps

DaysInMonth(y, m) ==
    IF m = 2 THEN (IF IsLeap(y) THEN 29 ELSE 28)
    ELSE IF m \in {4, 6, 9, 11} THEN 30 ELSE 31

\* days of a common year before the first of each month
CumulativeDays == <<0, 31, 59, 90, 120, 151, 181, 212, 243, 273, 304, 334>>

DaysBeforeMonth(y, m) ==
    CumulativeDays[m] + (IF m > 2 /\ IsLeap(y) THEN 1 ELSE 0)

\* civil::datetime panics on a date that does not exist
ValidCivilDate(y, m, d) ==
    /\ m \in 1..12
    /\ d \in 1..DaysInMonth(y, m)

\* seconds from the epoch to the civil time y-m-d h:00:00 read as UTC
CivilSeconds(y, m, d, h) ==
    (DaysBeforeYear(y) + DaysBeforeMonth(y, m) + (d - 1)) * SecondsPerDay
        + h * SecondsPerHour

\* civil::datetime(year, 12, day, 0, 0, 0, 0).in_tz("America/New_York")
puzzle_release(y, d) ==
    CivilSeconds(y, AOC_RELEASE_MONTH, d, AOC_RELEASE_HOUR)
        + AOC_RELEASE_TZ_HoursWestOfUTC * SecondsPerHour

\* A Zoned value: an instant and the UTC offset of the system time zone.
\* Zoned::year is the civil year at that offset.
ZonedYear(z) ==
    LET s == z.inst + z.off
        \* a year is at most 366 days long, so the year is y0 or the next
        \* one for the first decades after the epoch
        y0 == EpochYear + s \div (366 * SecondsPerDay)
    IN  CHOOSE y \in y0..(y0 + 1) :
            /\ DaysBeforeYear(y) * SecondsPerDay <= s
            /\ s < DaysBeforeYear(y + 1) * SecondsPerDay

\* mutant of BeforeRelease: the release instant itself counts as too early
BeforeRelease_le(z, y, d) == z.inst <= puzzle_release(y, d)

\* today < puzzle_release (Zoned values order by instant)
BeforeRelease(z, y, d) == z.inst < puzzle_release(y, d)

\* mutant of validate_year: no upper limit
validate_year_no_upper(z, y) == AOC_FIRST_YEAR <= y

\* validate_year: (2015..=today.year()).contains(&year)
validate_year(z, y) == AOC_FIRST_YEAR <= y /\ y <= ZonedYear(z)

\* mutant of validate_day: every day number passes
validate_day_any(y, d) == TRUE

\* mutant of validate_day: the 25-day calendar for every year
validate_day_25(y, d) == 1 <= d /\ d <= FULL_CALENDAR_DAYS

\* validate_day
validate_day(y, d) ==
    IF y >= SHORT_CALENDAR_YEAR /\ ~(1 <= d /\ d <= SHORT_CALENDAR_DAYS) THEN FALSE
    ELSE IF ~(1 <= d /\ d <= FULL_CALENDAR_DAYS) THEN FALSE
    ELSE TRUE

\* -------------------------------------------------------- error policy
\* Error::fatal
fatal(e) ==
    CASE e.kind = "IO" -> TRUE
      [] e.kind = "Request" -> TRUE
      [] e.kind = "Date" -> FALSE

\* cargo_error's Err arm: the diagnostic line it prints
cargo_error(e) ==
    [sev |-> IF fatal(e) THEN "error" ELSE "warning",
     kind |-> e.kind, path |-> e.path, day |-> e.day]

IOError(path, d) == [kind |-> "IO", path |-> path, day |-> d]
RequestError(d) == [kind |-> "Request", path |-> "url", day |-> d]
DateError(d) == [kind |-> "Date", path |-> "", day |-> d]

\* the cargo::error line of validate_year
YearReport == [sev |-> "error", kind |-> "Year", path |-> "", day |-> 0]
\* the cargo::warning line of validate_day
DayReport(d) == [sev |-> "warning", kind |-> "DayRange", path |-> "", day |-> d]

\* ------------------------------------------------------------ fetcher
AOC_URL == "https://adventofcode.com"

\* format!("{AOC_URL}/{year}/day/{day}/input")
Url(y, d) == [base |-> AOC_URL, year |-> y, day |-> d]

\* the text the service returns for a URL: the puzzle input of that (year, day)
Body(url) == [kind |-> "input", year |-> url.year, day |-> url.day]

\* what fs::write leaves behind when it fails after File::create truncated
PartialText(text) == [kind |-> "partial", year |-> text.year, day |-> text.day]

\* content of a file that is in the cache directory before the first run
OldText == [kind |-> "old", year |-> 0, day |-> 0]

\* cached.contains(&day)
IsCached(c, d) == d \in c

\* mutant of Stems: file_name collected where file_stem is meant
Stems_file_name(names) == names

\* the stems of a directory listing, collected into the HashSet
Stems(names) == {file_stem(f) : f \in names}

\* list_days: the entries of src/ whose stem matches DAY_REGEX, one item each
list_days(dir) == {e \in dir : DAY_REGEX_is_match(file_stem(e))}

\* ------------------------------------------------------------- inputs
\* target years a build script may pass to download_inputs
Years == {2014, 2024, 2025, 2026, 2027}

\* values of Zoned::now(): one second before and exactly at the release of
\* 2024 day 7, and 2025-12-31T23:00Z on a system clock at UTC+09:00 (where
\* the civil year is already 2026)
Todays ==
    { [inst |-> puzzle_release(2024, 7) - 1, off |-> -5 * SecondsPerHour],
      [inst |-> puzzle_release(2024, 7), off |-> 0],
      [inst |-> DaysBeforeYear(2026) * SecondsPerDay - SecondsPerHour,
       off |-> 9 * SecondsPerHour] }

SmallSubsets(S, k) == {T \in SUBSET S : Cardinality(T) <= k}

\* -------------------------------------------------------------- state
VARIABLES
    srcDir,       \* names of the entries of <root>/src/
    inputExists,  \* whether <root>/input/ exists
    inputDir,     \* <root>/input/: file name -> content
    pc,           \* position of the running call
    year,         \* the argument year the build script passes
    today,        \* its local today
    days,         \* items the days iterator has still to yield
    cached,       \* its local cached
    entry,        \* the src/ entry the current item came from
    day,          \* loop variable day (a stem)
    n,            \* local n
    inp,          \* the fetched text
    result,       \* "Running", "None", "Some" or "Panic"
    status,       \* per declared src/ entry: its state in this run
    requests,     \* bag of URLs requested in this run
    reports,      \* bag of diagnostic lines printed in this run
    writes,       \* bag of cache files created or truncated in this run
    dir0,         \* inputDir when this run started
    exists0,      \* inputExists when this run started
    prevAllSaved  \* the previous run declared days and saved every one

vars == <<srcDir, inputExists, inputDir, pc, year, today, days, cached,
          entry, day, n, inp, result, status, requests, reports, writes,
          dir0, exists0, prevAllSaved>>

fsVars == <<srcDir, inputExists, inputDir>>
runVars == <<year, today, days, cached>>
iterVars == <<entry, day, n, inp>>

NoEntry == <<>>

Init ==
    /\ srcDir \in SmallSubsets(SrcPool, MaxSrcEntries)
    /\ \E names \in SmallSubsets(CachePool, MaxCacheEntries) :
          inputDir = [f \in names |-> OldText]
    /\ inputExists \in BOOLEAN
    /\ (DOMAIN inputDir # {} => inputExists)
    /\ pc = "idle"
    /\ year \in Years
    /\ today = [inst |-> 0, off |-> 0]
    /\ days = {}
    /\ cached = {}
    /\ entry = NoEntry
    /\ day = <<>>
    /\ n = 0
    /\ inp = OldText
    /\ result = "None"
    /\ status = <<>>
    /\ requests = EmptyBag
    /\ reports = EmptyBag
    /\ writes = EmptyBag
    /\ dir0 = inputDir
    /\ exists0 = inputExists
    /\ prevAllSaved = FALSE

One(x) == SetToBag({x})

\* every declared entry of the finished run ended Saved
AllSaved ==
    /\ pc = "done"
    /\ result = "Some"
    /\ DOMAIN status # {}
    /\ \A e \in DOMAIN status : status[e] = "Saved"

\* return None after a fatal report
Abort(report) ==
    /\ reports' = reports (+) One(report)
    /\ result' = "None"
    /\ pc' = "done"

\* the loop body ends: its locals go out of scope and the loop takes the
\* next item
Continue(e, st) ==
    /\ status' = [status EXCEPT ![e] = st]
    /\ pc' = "loop"
    /\ entry' = NoEntry
    /\ day' = <<>>
    /\ n' = 0
    /\ inp' = OldText

\* download_inputs, lines 120-129: a call starts, reads the clock and
\* validates the year
Start ==
    /\ pc \in {"idle", "done"}
    /\ \E t \in Todays :
          /\ t.inst >= today.inst      \* the clock does not run backwards
          /\ today' = t
          /\ IF ~validate_year(t, year)
             THEN /\ reports' = One(YearReport)
                  /\ result' = "None"
                  /\ pc' = "done"
             ELSE /\ reports' = EmptyBag
                  /\ result' = "Running"
                  /\ pc' = "list_days"
    /\ prevAllSaved' = AllSaved
    /\ dir0' = inputDir
    /\ exists0' = inputExists
    /\ status' = <<>>
    /\ requests' = EmptyBag
    /\ writes' = EmptyBag
    /\ days' = {}
    /\ cached' = {}
    /\ UNCHANGED <<fsVars, year, iterVars>>

\* lines 131-132: list_days(root_dir) and cargo_error(res)?
ListDays ==
    /\ pc = "list_days"
    /\ \E ok \in BOOLEAN :
          IF ok
          THEN /\ days' = list_days(srcDir)
               /\ status' = [e \in list_days(srcDir) |-> "Declared"]
               /\ pc' = "ensure_dir"
               /\ UNCHANGED <<reports, result>>
          ELSE /\ Abort(cargo_error(IOError("src", 0)))
               /\ UNCHANGED <<days, status>>
    /\ UNCHANGED <<fsVars, year, today, cached, iterVars,
                   requests, writes, dir0, exists0, prevAllSaved>>

\* lines 134-141: create the download directory when it does not exist
EnsureDir ==
    /\ pc = "ensure_dir"
    /\ IF inputExists
       THEN /\ pc' = "read_cache"
            /\ UNCHANGED <<inputExists, reports, result>>
       ELSE \E ok \in BOOLEAN :
               IF ok
               THEN /\ inputExists' = TRUE
                    /\ pc' = "read_cache"
                    /\ UNCHANGED <<reports, result>>
               ELSE /\ Abort(cargo_error(IOError("input", 0)))
                    /\ UNCHANGED inputExists
    /\ UNCHANGED <<srcDir, inputDir, runVars, iterVars, status,
                   requests, writes, dir0, exists0, prevAllSaved>>

\* lines 143-152: list the download directory into cached
ReadCache ==
    /\ pc = "read_cache"
    /\ \E ok \in BOOLEAN :
          IF ok
          THEN /\ cached' = Stems(DOMAIN inputDir)
               /\ pc' = "loop"
               /\ UNCHANGED <<reports, result>>
          ELSE /\ Abort(cargo_error(IOError("input", 0)))
               /\ UNCHANGED cached
    /\ UNCHANGED <<fsVars, year, today, days, iterVars,
                   status, requests, writes, dir0, exists0, prevAllSaved>>

\* mutant of NextDay: the cache directory is looked up at every decision
\* where the snapshot is meant
NextDay_live ==
    /\ pc = "loop"
    /\ \E e \in days :
          /\ days' = days \ {e}
          /\ IF IsCached(Stems(DOMAIN inputDir), file_stem(e))
             THEN Continue(e, "Cached")
             ELSE /\ entry' = e
                  /\ day' = file_stem(e)
                  /\ pc' = "validate_day"
                  /\ UNCHANGED <<status, n, inp>>
    /\ UNCHANGED <<fsVars, year, today, cached, result,
                   requests, reports, writes, dir0, exists0, prevAllSaved>>

\* lines 154-155: the iterator yields an item, in the directory's order
\* (any order), and the loop skips it when it is cached
NextDay ==
    /\ pc = "loop"
    /\ \E e \in days :
          /\ days' = days \ {e}
          /\ IF IsCached(cached, file_stem(e))
             THEN Continue(e, "Cached")
             ELSE /\ entry' = e
                  /\ day' = file_stem(e)
                  /\ pc' = "validate_day"
                  /\ UNCHANGED <<status, n, inp>>
    /\ UNCHANGED <<fsVars, year, today, cached, result,
                   requests, reports, writes, dir0, exists0, prevAllSaved>>

\* mutant of ValidateDay: the release date is compared before the range of
\* the day is validated
ValidateDay_gate_first ==
    /\ pc = "validate_day"
    /\ LET parsed == parse_i8(DayDigits(day)) IN
       IF parsed < 0
       THEN /\ pc' = "panic"
            /\ result' = "Panic"
            /\ UNCHANGED <<status, reports, iterVars>>
       ELSE IF BeforeRelease(today, year, parsed)
       THEN /\ reports' = reports (+) One(cargo_error(DateError(parsed)))
            /\ Continue(entry, "NotReleased")
            /\ UNCHANGED result
       ELSE IF ~validate_day(year, parsed)
       THEN /\ reports' = reports (+) One(DayReport(parsed))
            /\ Continue(entry, "OutOfRange")
            /\ UNCHANGED result
       ELSE /\ n' = parsed
            /\ pc' = "release_gate"
            /\ UNCHANGED <<status, reports, result, entry, day, inp>>
    /\ UNCHANGED <<fsVars, runVars, requests, writes, dir0, exists0,
                   prevAllSaved>>

\* lines 156-162: parse the day number and validate its range
ValidateDay ==
    /\ pc = "validate_day"
    /\ LET parsed == parse_i8(DayDigits(day)) IN
       IF parsed < 0
       THEN /\ pc' = "panic"
            /\ result' = "Panic"
            /\ UNCHANGED <<status, reports, iterVars>>
       ELSE IF ~validate_day(year, parsed)
       THEN /\ reports' = reports (+) One(DayReport(parsed))
            /\ Continue(entry, "OutOfRange")
            /\ UNCHANGED result
       ELSE /\ n' = parsed
            /\ pc' = "release_gate"
            /\ UNCHANGED <<status, reports, result, entry, day, inp>>
    /\ UNCHANGED <<fsVars, runVars, requests, writes, dir0, exists0,
                   prevAllSaved>>

\* mutant of ReleaseGate: fetch_input reads the clock itself
\* (Zoned::now() where the today passed in is meant)
ReleaseGate_reads_clock ==
    /\ pc = "release_gate"
    /\ \E t \in Todays :
          /\ t.inst >= today.inst
          /\ today' = t
          /\ IF ~ValidCivilDate(year, AOC_RELEASE_MONTH, n)
             THEN /\ pc' = "panic"
                  /\ result' = "Panic"
                  /\ UNCHANGED <<status, reports, iterVars>>
             ELSE IF BeforeRelease(t, year, n)
             THEN /\ reports' = reports (+) One(cargo_error(DateError(n)))
                  /\ Continue(entry, "NotReleased")
                  /\ UNCHANGED result
             ELSE /\ pc' = "request"
                  /\ status' = [status EXCEPT ![entry] = "Fetching"]
                  /\ UNCHANGED <<reports, result, iterVars>>
    /\ UNCHANGED <<fsVars, year, days, cached, requests, writes, dir0, exists0,
                   prevAllSaved>>

\* fetch_input, lines 55-61, and cargo_error at line 165
ReleaseGate ==
    /\ pc = "release_gate"
    /\ IF ~ValidCivilDate(year, AOC_RELEASE_MONTH, n)
       THEN /\ pc' = "panic"
            /\ result' = "Panic"
            /\ UNCHANGED <<status, reports, iterVars>>
       ELSE IF BeforeRelease(today, year, n)
       THEN /\ reports' = reports (+) One(cargo_error(DateError(n)))
            /\ Continue(entry, "NotReleased")
            /\ UNCHANGED result
       ELSE /\ pc' = "request"
            /\ status' = [status EXCEPT ![entry] = "Fetching"]
            /\ UNCHANGED <<reports, result, iterVars>>
    /\ UNCHANGED <<fsVars, runVars, requests, writes, dir0, exists0,
                   prevAllSaved>>

\* mutant of Request: a failed fetch returns None from download_inputs
\* (cargo_error(res)? where the if-let is meant)
Request_abort ==
    /\ pc = "request"
    /\ requests' = requests (+) One(Url(year, n))
    /\ \E ok \in BOOLEAN :
          IF ok
          THEN /\ inp' = Body(Url(year, n))
               /\ pc' = "write"
               /\ UNCHANGED <<status, reports, result>>
          ELSE /\ Abort(cargo_error(RequestError(n)))
               /\ status' = [status EXCEPT ![entry] = "FetchFailed"]
               /\ UNCHANGED inp
    /\ UNCHANGED <<fsVars, runVars, entry, day, n, writes, dir0, exists0,
                   prevAllSaved>>

\* mutant of Request: the failed fetch falls through to the write with an
\* empty text (unwrap_or_default where the if-let is meant)
Request_unwrap_or_default ==
    /\ pc = "request"
    /\ requests' = requests (+) One(Url(year, n))
    /\ \E ok \in BOOLEAN :
          IF ok
          THEN /\ inp' = Body(Url(year, n))
               /\ UNCHANGED reports
          ELSE /\ reports' = reports (+) One(cargo_error(RequestError(n)))
               /\ inp' = [kind |-> "empty", year |-> 0, day |-> 0]
    /\ pc' = "write"
    /\ UNCHANGED <<fsVars, runVars, entry, day, n, result, status, writes,
                   dir0, exists0, prevAllSaved>>

\* fetch_input, lines 63-71, and cargo_error at line 165: the GET succeeds
\* with the body text or fails
Request ==
    /\ pc = "request"
    /\ requests' = requests (+) One(Url(year, n))
    /\ \E ok \in BOOLEAN :
          IF ok
          THEN /\ inp' = Body(Url(year, n))
               /\ pc' = "write"
               /\ UNCHANGED <<status, reports, entry, day, n>>
          ELSE /\ reports' = reports (+) One(cargo_error(RequestError(n)))
               /\ Continue(entry, "FetchFailed")
    /\ UNCHANGED <<fsVars, runVars, result, writes, dir0, exists0,
                   prevAllSaved>>

\* mutant of Write: a failed write returns None from download_inputs
\* (cargo_error(res)? where let _ = is meant)
Write_question_mark ==
    /\ pc = "write"
    /\ \E ok \in BOOLEAN :
          LET file == CacheFileName(day) IN
          IF ok
          THEN /\ inputDir' = [f \in DOMAIN inputDir \cup {file} |->
                                 IF f = file THEN inp ELSE inputDir[f]]
               /\ writes' = writes (+) One(file)
               /\ Continue(entry, "Saved")
               /\ UNCHANGED <<reports, result>>
          ELSE /\ Abort(cargo_error(IOError("file", n)))
               /\ status' = [status EXCEPT ![entry] = "WriteFailed"]
               /\ UNCHANGED <<inputDir, writes, iterVars>>
    /\ UNCHANGED <<srcDir, inputExists, runVars, requests,
                   dir0, exists0, prevAllSaved>>

\* lines 166-169: fs::write creates or truncates the file and writes the
\* text; it can fail before creating the file or after truncating it
Write ==
    /\ pc = "write"
    /\ \E outcome \in {"ok", "create_failed", "write_failed"} :
          LET file == CacheFileName(day) IN
          CASE outcome = "ok" ->
                /\ inputDir' = [f \in DOMAIN inputDir \cup {file} |->
                                  IF f = file THEN inp ELSE inputDir[f]]
                /\ writes' = writes (+) One(file)
                /\ Continue(entry, "Saved")
                /\ UNCHANGED reports
            [] outcome = "create_failed" ->
                /\ reports' = reports (+) One(cargo_error(IOError("file", n)))
                /\ Continue(entry, "WriteFailed")
                /\ UNCHANGED <<inputDir, writes>>
            [] outcome = "write_failed" ->
                /\ inputDir' = [f \in DOMAIN inputDir \cup {file} |->
                                  IF f = file THEN PartialText(inp) ELSE inputDir[f]]
                /\ writes' = writes (+) One(file)
                /\ reports' = reports (+) One(cargo_error(IOError("file", n)))
                /\ Continue(entry, "WriteFailed")
    /\ UNCHANGED <<srcDir, inputExists, runVars, result, requests,
                   dir0, exists0, prevAllSaved>>

\* line 174: the iterator is exhausted, the call returns Some(())
Finish ==
    /\ pc = "loop"
    /\ days = {}
    /\ result' = "Some"
    /\ pc' = "done"
    /\ UNCHANGED <<fsVars, runVars, iterVars, status, requests, reports,
                   writes, dir0, exists0, prevAllSaved>>

Next ==
    \/ Start
    \/ ListDays
    \/ EnsureDir
    \/ ReadCache
    \/ NextDay
    \/ ValidateDay
    \/ ReleaseGate
    \/ Request
    \/ Write
    \/ Finish

Spec == Init /\ [][Next]_vars

\* the steps of a call in progress: a call that has started keeps executing
\* until it returns (nothing promises that another call is ever made)
Step ==
    \/ ListDays
    \/ EnsureDir
    \/ ReadCache
    \/ NextDay
    \/ ValidateDay
    \/ ReleaseGate
    \/ Request
    \/ Write
    \/ Finish

FairSpec == Spec /\ WF_vars(Step)

\* the outcomes in which an operation of the environment succeeds: the two
\* directory listings, the creation of the cache directory, the GET and the
\* write of the fetched text
ListDaysOk == ListDays /\ pc' = "ensure_dir"
EnsureDirOk == EnsureDir /\ pc' = "read_cache"
ReadCacheOk == ReadCache /\ pc' = "loop"
RequestOk == Request /\ pc' = "write"
WriteOk == Write /\ status'[entry] = "Saved"

\* repeated builds: cargo runs the build script again and again, and no
\* operation of the environment fails for ever
RetrySpec ==
    /\ Spec
    /\ WF_vars(Step)
    /\ WF_vars(Start)
    /\ SF_vars(ListDaysOk)
    /\ SF_vars(EnsureDirOk)
    /\ SF_vars(ReadCacheOk)
    /\ SF_vars(RequestOk)
    /\ SF_vars(WriteOk)

TypeOK ==
    /\ pc \in {"idle", "list_days", "ensure_dir", "read_cache", "loop",
               "validate_day", "release_gate", "request", "write", "done", "panic"}
    /\ result \in {"Running", "None", "Some", "Panic"}
    /\ srcDir \subseteq SrcPool
    /\ days \subseteq srcDir
    /\ DOMAIN status \subseteq srcDir

\* ------------------------------------------------- vocabulary of the claims
\* the day number of an identifier dayXX: the value of its two digits
StemDay(s) == 10 * DigitVal(s[4]) + DigitVal(s[5])

\* the identifier of a declared src/ entry: "day" and two digits, the part
\* of its name before any extension
Ident(e) == SubSeq(e, 1, 5)

\* a request for day d was issued in this run
RequestedDay(d) == \E u \in BagToSet(requests) : u.day = d

\* file f of the cache directory differs from what it was when the run began
Changed(f) ==
    \/ f \in DOMAIN inputDir /\ f \notin DOMAIN dir0
    \/ f \in DOMAIN dir0 /\ f \notin DOMAIN inputDir
    \/ f \in DOMAIN inputDir /\ f \in DOMAIN dir0 /\ inputDir[f] # dir0[f]

AllFiles == DOMAIN inputDir \cup DOMAIN dir0

\* how many lines of kind k were printed for day d in this run, at any severity
Reported(k, d) ==
    CopiesIn([sev |-> "error", kind |-> k, path |-> "url", day |-> d], reports)
      + CopiesIn([sev |-> "warning", kind |-> k, path |-> "url", day |-> d], reports)
      + CopiesIn([sev |-> "error", kind |-> k, path |-> "file", day |-> d], reports)
      + CopiesIn([sev |-> "warning", kind |-> k, path |-> "file", day |-> d], reports)
      + CopiesIn([sev |-> "error", kind |-> k, path |-> "", day |-> d], reports)
      + CopiesIn([sev |-> "warning", kind |-> k, path |-> "", day |-> d], reports)

\* how many requests for day d were issued in this run
RequestsFor(d) == CopiesIn(Url(year, d), requests)

\* how many of the requests for day d returned a text: those issued minus
\* those reported as failed
SuccessfulFetches(d) == RequestsFor(d) - Reported("Request", d)

\* the run returned Some(())
RunCompleted == pc = "done" /\ result = "Some"

\* the day range of the puzzle calendar of year y
InCalendar(y, d) ==
    IF y < 2025 THEN d \in 1..25 ELSE d \in 1..12

\* the cache directory held an entry with the identifier of e when the run began
HeldInCache(e) == \E f \in DOMAIN dir0 : file_stem(f) = Ident(e)

\* ------------------------------------------------------------------ C1
\* C1: once the loop has taken up a declared day whose identifier is the
\* stem of an entry the cache directory held when it was listed, the day is
\* Cached, no request for it was issued in that run, and no file with that
\* stem is created or modified.
C1_CachedDayNeverFetched ==
    \A e \in DOMAIN status :
        (status[e] # "Declared" /\ HeldInCache(e)) =>
            /\ status[e] = "Cached"
            /\ ~RequestedDay(StemDay(Ident(e)))
            /\ \A f \in AllFiles :
                  file_stem(f) = Ident(e) => ~Changed(f) /\ CopiesIn(f, writes) = 0

\* a finished run that skipped a cached day which is in range and released,
\* and saved another day
C1_Witness ==
    /\ RunCompleted
    /\ \E e \in DOMAIN status :
          /\ HeldInCache(e)
          /\ status[e] = "Cached"
          /\ InCalendar(year, StemDay(Ident(e)))
          /\ today.inst >= puzzle_release(year, StemDay(Ident(e)))
    /\ \E e \in DOMAIN status : status[e] = "Saved"

\* ------------------------------------------------------------------ C2
\* C2: when the previous run saved every declared day, the next run over the
\* same src/ and the cache directory that run left issues no request and
\* writes no file.
C2_SecondRunIdle ==
    prevAllSaved =>
        /\ requests = EmptyBag
        /\ writes = EmptyBag
        /\ inputDir = dir0

\* a run that completed after a run that saved every day, with
\* every declared day found cached
C2_Witness ==
    /\ prevAllSaved
    /\ RunCompleted
    /\ Cardinality(DOMAIN status) >= 2
    /\ \A e \in DOMAIN status : status[e] = "Cached"

\* ------------------------------------------------------------------ C3
\* C3: a file of the cache directory differs from its content at the start of
\* the run (or appears, or disappears) only if it is the <identifier>.txt of
\* a declared entry whose fetch succeeded in this run; so the files of days
\* whose fetch failed, that were skipped, or that are not declared are as
\* they were.
C3_WriteOnlyAfterSuccessfulFetch ==
    \A f \in AllFiles :
        Changed(f) \/ CopiesIn(f, writes) > 0 =>
            \E e \in DOMAIN status :
                /\ f = Ident(e) \o <<".","t","x","t">>
                /\ SuccessfulFetches(StemDay(Ident(e))) >= 1
                /\ SuccessfulFetches(StemDay(Ident(e))) >= CopiesIn(f, writes)

\* a finished run in which one day's fetch failed, one day was skipped and one
\* day was saved, with a file of an undeclared day in the cache
C3_Witness ==
    /\ RunCompleted
    /\ \E e \in DOMAIN status :
          /\ status[e] = "FetchFailed"
          /\ SuccessfulFetches(StemDay(Ident(e))) = 0
          /\ RequestsFor(StemDay(Ident(e))) = 1
    /\ \E e \in DOMAIN status : status[e] \in {"NotReleased", "OutOfRange", "Cached"}
    /\ \E e \in DOMAIN status : status[e] = "Saved" /\ Changed(CacheFileName(Ident(e)))
    /\ dir0 # <<>>

\* entry e has reached a terminal state of this run
Terminal(e) ==
    status[e] \in {"Cached", "OutOfRange", "NotReleased", "Saved",
                   "FetchFailed", "WriteFailed"}

\* the cache file of entry e
CacheFile(e) == Ident(e) \o <<".","t","x","t">>

\* the cache file of entry e was neither written nor changed in this run
Untouched(e) == CopiesIn(CacheFile(e), writes) = 0 /\ ~Changed(CacheFile(e))

\* ------------------------------------------------------------------ C4
\* C4: <identifier>.txt is written at most once: never in a run that found
\* it present, and at most once in a run that did not.
C4_WriteOnce ==
    \A f \in AllFiles :
        CopiesIn(f, writes) <= (IF f \in DOMAIN dir0 THEN 0 ELSE 1)

\* ------------------------------------------------------------------ C5
\* C5: for a declared, uncached, in-range day that the run has dealt with, a
\* request was issued iff today is at or after the release instant (midnight
\* of December <day> in America/New_York, e.g. 2024-12-07T05:00:00Z for
\* 2024 day 7); before it, the day is NotReleased with one warning-severity
\* line and no error line, its file is untouched, and the run goes on to
\* complete with every day dealt with.
C5_ReleaseGate ==
    /\ pc = "idle" => puzzle_release(2024, 7) = 313477200
    /\ \A e \in DOMAIN status :
          LET d == StemDay(Ident(e))
              released == today.inst >= puzzle_release(year, d)
          IN
          (status[e] # "Declared" /\ InCalendar(year, d) /\ ~HeldInCache(e)) =>
             /\ RequestedDay(d) => released
             /\ Terminal(e) => (RequestedDay(d) <=> released)
             /\ (Terminal(e) /\ ~released) =>
                   /\ status[e] = "NotReleased"
                   /\ CopiesIn([sev |-> "warning", kind |-> "Date", path |-> "",
                                day |-> d], reports) >= 1
                   /\ CopiesIn([sev |-> "error", kind |-> "Date", path |-> "",
                                day |-> d], reports) = 0
                   /\ Untouched(e)
                   /\ result # "None"
    /\ RunCompleted => \A e \in DOMAIN status : Terminal(e)

\* a finished run at exactly the release instant of a day it saved, with a
\* later day skipped as not released
C5_Witness ==
    /\ RunCompleted
    /\ \E e \in DOMAIN status :
          /\ status[e] = "Saved"
          /\ today.inst = puzzle_release(year, StemDay(Ident(e)))
    /\ \E e \in DOMAIN status :
          /\ status[e] = "NotReleased"
          /\ InCalendar(year, StemDay(Ident(e)))

\* ------------------------------------------------------------------ C6
\* C6: when the year is outside [2015, current year] the call ends with None
\* and exactly the one error-severity year line, with no discovery, no cache
\* directory created or changed, no request and no write; when it is inside,
\* no year line is printed and a None result comes with an I/O line.  The
\* current year is the civil year of the system clock: 2025-12-31T23:00:00Z
\* is in 2025 at UTC and in 2026 at UTC+09:00.
C6_YearValidationFirst ==
    /\ pc = "idle" =>
          /\ ZonedYear([inst |-> 347151600, off |-> 0]) = 2025
          /\ ZonedYear([inst |-> 347151600, off |-> 32400]) = 2026
    /\ pc # "idle" =>
          IF year < 2015 \/ year > ZonedYear(today)
          THEN /\ pc = "done"
               /\ result = "None"
               /\ reports = One([sev |-> "error", kind |-> "Year", path |-> "",
                                 day |-> 0])
               /\ status = <<>>
               /\ requests = EmptyBag
               /\ writes = EmptyBag
               /\ inputDir = dir0
               /\ inputExists = exists0
          ELSE /\ \A r \in BagToSet(reports) : r.kind # "Year"
               /\ (pc = "done" /\ result = "None") =>
                     \E r \in BagToSet(reports) : r.kind = "IO"

\* a call for the year after the current one, made where src/ declares a day
\* and the cache directory does not exist
C6_Witness ==
    /\ pc = "done"
    /\ year = ZonedYear(today) + 1
    /\ ~inputExists
    /\ list_days(srcDir) # {}

\* ------------------------------------------------------------------ C7
\* C7: validate_day accepts d iff d is in 1..25 for a year before 2025 and in
\* 1..12 from 2025 on (2026/13 rejected, 2024/13 accepted, 0 always rejected);
\* a declared uncached day is OutOfRange iff its number is outside that
\* range, and then it has a warning-severity line, no request and an
\* untouched file, and the run still deals with every other day.
C7_DayRange ==
    /\ pc = "idle" =>
          /\ ~validate_day(2026, 13)
          /\ validate_day(2024, 13)
          /\ \A y \in Years, d \in 0..29 : validate_day(y, d) <=> InCalendar(y, d)
    /\ \A e \in DOMAIN status :
          LET d == StemDay(Ident(e)) IN
          /\ status[e] = "OutOfRange" =>
                /\ ~InCalendar(year, d)
                /\ CopiesIn([sev |-> "warning", kind |-> "DayRange", path |-> "",
                             day |-> d], reports) >= 1
                /\ ~RequestedDay(d)
                /\ Untouched(e)
                /\ result # "None"
          /\ (Terminal(e) /\ ~HeldInCache(e) /\ ~InCalendar(year, d)) =>
                status[e] = "OutOfRange"
    /\ RunCompleted => \A e \in DOMAIN status : Terminal(e)

\* a finished run for a year from 2025 on in which day 13 and day 0 were
\* rejected and another day saved
C7_Witness ==
    /\ RunCompleted
    /\ year >= 2025
    /\ \E e \in DOMAIN status : status[e] = "OutOfRange" /\ StemDay(Ident(e)) = 13
    /\ \E e \in DOMAIN status : status[e] = "OutOfRange" /\ StemDay(Ident(e)) = 0
    /\ \E e \in DOMAIN status : status[e] = "Saved"

\* ------------------------------------------------------------------ C8
\* a run that has dealt with any day never returns None, and a completed
\* run has every declared day in a terminal state; with exactly three
\* declared entries of which one failed to fetch, one is not released and one
\* is saved, exactly one file was written (the saved day's) and exactly two
\* lines were printed, a request failure for the first and a date line for
\* the second
Isolation ==
    /\ (pc = "done" /\ result = "None") =>
          /\ \A e \in DOMAIN status : status[e] = "Declared"
          /\ requests = EmptyBag
    /\ RunCompleted => \A e \in DOMAIN status : Terminal(e)
    /\ pc # "panic"
    /\ RunCompleted => \A a, b, c \in DOMAIN status :
          ( /\ DOMAIN status = {a, b, c}
            /\ status[a] = "FetchFailed"
            /\ status[b] = "NotReleased"
            /\ status[c] = "Saved" ) =>
             /\ writes = One(CacheFile(c))
             /\ inputDir[CacheFile(c)] = [kind |-> "input", year |-> year,
                                          day |-> StemDay(Ident(c))]
             /\ BagCardinality(reports) = 2
             /\ Reported("Request", StemDay(Ident(a))) = 1
             /\ Reported("Date", StemDay(Ident(b))) = 1

\* C8: a run that has entered the loop over the declared days always goes on
\* to complete with Some(()), whatever fails on the way and in whatever
\* order the days come, and at completion every declared day is in a terminal
\* state (Isolation above, with the three-day example).
C8_PartialFailureIsolation ==
    /\ []Isolation
    /\ (pc = "loop") ~> RunCompleted

\* the three-day run: A failed to fetch, B is not released, C is saved
C8_Witness ==
    /\ RunCompleted
    /\ Cardinality(DOMAIN status) = 3
    /\ \E a, b, c \in DOMAIN status :
          /\ status[a] = "FetchFailed"
          /\ status[b] = "NotReleased"
          /\ status[c] = "Saved"

\* ------------------------------------------------------------------ C9
\* C9: a request failure is printed at warning severity, and an
\* error-severity line is printed only by a call that returns None.
C9_RequestErrorsAreWarnings ==
    \A r \in BagToSet(reports) :
        /\ r.kind = "Request" => r.sev = "warning"
        /\ (r.sev = "error" /\ pc = "done") => result = "None"

\* ----------------------------------------------------------------- C10
\* a fatal condition was reported: the year, or an I/O failure on src/ or on
\* the cache directory
FatalCondition ==
    \E r \in BagToSet(reports) :
        r.kind = "Year" \/ (r.kind = "IO" /\ r.path \in {"src", "input"})

\* C10: a finished call returned None iff a fatal condition was reported and
\* Some(()) otherwise; a call that has not finished has reported no fatal
\* condition, has not panicked and can take a step.
C10_ExitStatus ==
    /\ pc = "done" =>
          /\ result \in {"None", "Some"}
          /\ result = "None" <=> FatalCondition
    /\ pc \notin {"done", "idle"} =>
          /\ ~FatalCondition
          /\ result = "Running"
          /\ ENABLED Next

\* a call that returned Some(()) although every one of its days failed to fetch
C10_Witness ==
    /\ RunCompleted
    /\ Cardinality(DOMAIN status) >= 2
    /\ \A e \in DOMAIN status : status[e] = "FetchFailed"

\* ----------------------------------------------------------------- C11
\* the cache directory holds a complete text for the identifier of e: the
\* text a run fetched for it, or a file that was there before the first run
SavedOrHeld(e) ==
    \E f \in DOMAIN inputDir :
        /\ file_stem(f) = Ident(e)
        /\ inputDir[f].kind \in {"input", "old"}

\* C11: under repeated runs in which no operation fails for ever, every
\* declared day that is in the calendar of the year and released when a run
\* takes up its loop is eventually saved: the cache directory comes to hold
\* its complete text.
C11_RetryUntilSaved ==
    \A e \in SrcPool :
        ( /\ pc = "loop"
          /\ e \in DOMAIN status
          /\ InCalendar(year, StemDay(Ident(e)))
          /\ today.inst >= puzzle_release(year, StemDay(Ident(e))) )
        ~> SavedOrHeld(e)

\* ----------------------------------------------------------------- C12
\* s is "day" followed by two digits, the first of them 0, 1 or 2
LexicalDay(s) ==
    /\ Len(s) = 5
    /\ s[1] = "d" /\ s[2] = "a" /\ s[3] = "y"
    /\ s[4] \in {"0", "1", "2"}
    /\ s[5] \in {"0", "1", "2", "3", "4", "5", "6", "7", "8", "9"}

\* the entries of src/ whose stem is in the lexical day pattern
DeclaredEntries == {e \in srcDir : LexicalDay(file_stem(e))}

\* the call has listed src/ and has not returned None
Listed ==
    \/ pc \in {"ensure_dir", "read_cache", "loop", "validate_day",
               "release_gate", "request", "write"}
    \/ RunCompleted

\* C12: once src/ is listed, the days of the run are exactly the entries
\* whose stem is "day" and two digits with the first in 0-2; the day in the
\* loop body, every request, every printed day line and every written file
\* belongs to one of them, so any other entry causes no report, no request
\* and no write.  A src/ of day07.rs, day31.rs and notes.txt yields the
\* identifier day07 alone.
C12_DiscoveryFiltering ==
    /\ pc = "idle" =>
          {file_stem(e) : e \in list_days({day07_rs, day31_rs, notes_txt})}
             = {<<"d","a","y","0","7">>}
    /\ Listed => DOMAIN status = DeclaredEntries
    /\ status # <<>> => DOMAIN status = DeclaredEntries
    /\ entry # NoEntry => entry \in DeclaredEntries /\ day = file_stem(entry)
    /\ \A u \in BagToSet(requests) :
          \E e \in DeclaredEntries : u.day = StemDay(file_stem(e))
    /\ \A r \in BagToSet(reports) :
          r.kind \in {"Request", "Date", "DayRange"} \/ r.path = "file" =>
             \E e \in DeclaredEntries : r.day = StemDay(file_stem(e))
    /\ \A f \in DOMAIN writes :
          \E e \in DeclaredEntries : f = file_stem(e) \o <<".","t","x","t">>
    /\ (RunCompleted /\ srcDir = {day07_rs, day31_rs, notes_txt}) =>
          /\ DOMAIN status = {day07_rs}
          /\ BagCardinality(requests) <= 1
          /\ BagCardinality(reports) <= 1
          /\ BagCardinality(writes) <= 1

\* the run over day07.rs, day31.rs and notes.txt that saved day 7 and
\* printed nothing
C12_Witness ==
    /\ RunCompleted
    /\ srcDir = {day07_rs, day31_rs, notes_txt}
    /\ status = [e \in {day07_rs} |-> "Saved"]
    /\ reports = EmptyBag
    /\ BagCardinality(requests) = 1
    /\ DOMAIN inputDir \ DOMAIN dir0 = {<<"d","a","y","0","7",".","t","x","t">>}

\* ----------------------------------------------------------------- C13
\* how many lines about day d were printed in this run
LinesFor(d) ==
    Reported("Request", d) + Reported("Date", d) + Reported("DayRange", d)
        + Reported("IO", d)

\* C13: in one run at most one request is issued per day identifier, and at
\* most one line is printed per day identifier; a day that ended out of
\* range, not released or failed has exactly one line.
C13_NoRetryWithinRun ==
    \A e \in DOMAIN status :
        LET d == StemDay(Ident(e)) IN
        /\ RequestsFor(d) <= 1
        /\ LinesFor(d) <= 1
        /\ status[e] \in {"OutOfRange", "NotReleased", "FetchFailed", "WriteFailed"}
              => LinesFor(d) = 1

\* ----------------------------------------------------------------- C14
\* a step moves the state of a declared day forward only: from Declared to
\* a skip or to Fetching, from Fetching to Saved or a failure; and the loop
\* body passes its checks in the order range, release, fetch, write
Forward ==
    /\ \A e \in DOMAIN status \cap DOMAIN status' :
          status'[e] # status[e] =>
             \/ /\ status[e] = "Declared"
                /\ status'[e] \in {"Cached", "OutOfRange", "NotReleased", "Fetching"}
             \/ /\ status[e] = "Fetching"
                /\ status'[e] \in {"Saved", "FetchFailed", "WriteFailed"}
    /\ \A e \in DOMAIN status \cap DOMAIN status' :
          (status'[e] = "Cached" /\ status[e] # "Cached") => pc = "loop"
    /\ (pc' = "validate_day" /\ pc # pc') => pc = "loop"
    /\ (pc' = "release_gate" /\ pc # pc') => pc = "validate_day"
    /\ (pc' = "request" /\ pc # pc') => pc = "release_gate"
    /\ (pc' = "write" /\ pc # pc') => pc = "request"
    /\ requests' # requests => pc = "request" \/ requests' = EmptyBag
    /\ inputDir' # inputDir => pc = "write"

\* what each state of a day says about the checks it passed
ChecksPassed ==
    /\ pc = "idle" =>
          /\ ~validate_day(2025, 13)
          /\ BeforeRelease([inst |-> puzzle_release(2025, 13) - 1, off |-> 0],
                           2025, 13)
    /\ \A e \in DOMAIN status :
          LET d == StemDay(Ident(e))
              released == today.inst >= puzzle_release(year, d)
          IN
          /\ status[e] = "OutOfRange" => ~HeldInCache(e) /\ ~InCalendar(year, d)
          /\ status[e] = "NotReleased" =>
                ~HeldInCache(e) /\ InCalendar(year, d) /\ ~released
          /\ status[e] \in {"Fetching", "Saved", "FetchFailed", "WriteFailed"} =>
                ~HeldInCache(e) /\ InCalendar(year, d) /\ released
          /\ (Terminal(e) /\ ~HeldInCache(e) /\ ~InCalendar(year, d) /\ ~released) =>
                /\ status[e] = "OutOfRange"
                /\ Reported("DayRange", d) >= 1
                /\ Reported("Date", d) = 0

\* C14: each declared day moves only forward through Declared ->
\* {Cached | OutOfRange | NotReleased | Fetching -> {Saved | Failed}}, and the
\* checks run in the order cache, day range, release gate, fetch, write: a
\* day that is out of range and not yet released is reported as out of range
\* and not as not released, and a day is Fetching only when it is uncached,
\* in range and released.
C14_StepOrder == []ChecksPassed /\ [][Forward]_vars

\* a finished run for a year in whose calendar day 13 does not exist, made
\* before December 13 of that year: the day ended out of range
C14_Witness ==
    /\ RunCompleted
    /\ \E e \in DOMAIN status :
          /\ StemDay(Ident(e)) = 13
          /\ ~InCalendar(year, 13)
          /\ today.inst < puzzle_release(year, 13)
          /\ status[e] = "OutOfRange"
    /\ \E e \in DOMAIN status : status[e] = "NotReleased"

\* ----------------------------------------------------------------- C15
\* the run is in its per-day loop, or has completed it
InOrAfterLoop ==
    \/ pc \in {"loop", "validate_day", "release_gate", "request", "write"}
    \/ RunCompleted

\* the snapshot is what the cache directory held when the run began, while
\* and after the loop runs; before that it is empty and nothing was fetched;
\* and a day ended Cached iff the snapshot holds its identifier
SnapshotFixed ==
    /\ InOrAfterLoop =>
          /\ cached = {file_stem(f) : f \in DOMAIN dir0}
          /\ inputExists
          /\ \A e \in DOMAIN status :
                status[e] # "Declared" => (status[e] = "Cached" <=> Ident(e) \in cached)
    /\ pc \in {"list_days", "ensure_dir", "read_cache"} =>
          /\ cached = {}
          /\ requests = EmptyBag
          /\ writes = EmptyBag
          /\ inputDir = dir0

\* the snapshot is assigned by the one step that lists the cache directory,
\* which a run takes once, after the step that ensures the directory
SnapshotOnce ==
    /\ cached' # cached =>
          \/ pc = "read_cache" /\ pc' = "loop"
          \/ pc \in {"idle", "done"} /\ cached' = {}
    /\ (pc' = "read_cache" /\ pc # pc') => pc = "ensure_dir"
    /\ (pc' = "ensure_dir" /\ pc # pc') => pc = "list_days"
    /\ (pc' = "list_days" /\ pc # pc') => pc \in {"idle", "done"}
    /\ (pc' = "loop" /\ pc = "read_cache") => inputExists

\* C15: the cached set is computed once per run, after the cache directory
\* is ensured and before the first fetch, and stays as it is through the
\* loop: a file written in the loop is not added to it and every "already
\* cached" decision of the run is the one the snapshot gives.
C15_CachedSnapshot == []SnapshotFixed /\ [][SnapshotOnce]_vars

\* the loop has saved a day whose identifier is not in the non-empty
\* snapshot, and still has a day to take up
C15_Witness ==
    /\ pc = "loop"
    /\ days # {}
    /\ cached # {}
    /\ \E e \in DOMAIN status :
          /\ status[e] = "Saved"
          /\ Ident(e) \notin cached
          /\ CacheFile(e) \in DOMAIN inputDir

\* ----------------------------------------------------------------- C16
\* the puzzle input of (y, d), as the service returns it
InputOf(y, d) == [kind |-> "input", year |-> y, day |-> d]

\* the day number in the name dayXX.txt
FileDay(f) == 10 * DigitVal(f[4]) + DigitVal(f[5])

GateMonotone ==
    /\ (result = "Running" \/ RunCompleted) =>
          year >= 2015 /\ year <= ZonedYear(today)
    /\ \A a, b \in DOMAIN status :
          ( /\ RequestedDay(StemDay(Ident(b)))
            /\ StemDay(Ident(a)) < StemDay(Ident(b)) ) =>
             status[a] # "NotReleased"

\* the clock is read when a call starts and at no other step
ClockOnce == today' # today => pc \in {"idle", "done"}

\* C17: the year validation and every release gate of a run use the one
\* instant read when the run started, so the gate is monotone in the day
\* number: when a request was issued for day d, no declared day below d is
\* skipped as not released in that run.
C17_ConsistentGating == []GateMonotone /\ [][ClockOnce]_vars

\* a finished run that requested two days and skipped a later one as not
\* released
C17_Witness ==
    /\ RunCompleted
    /\ \E a, b, c \in DOMAIN status :
          /\ StemDay(Ident(a)) < StemDay(Ident(b))
          /\ StemDay(Ident(b)) < StemDay(Ident(c))
          /\ RequestedDay(StemDay(Ident(a)))
          /\ RequestedDay(StemDay(Ident(b)))
          /\ status[c] = "NotReleased"

\* ----------------------------------------------------------------- C18
\* C18: neither assertion of the loop can fail.  Every two-digit string the
\* day pattern admits parses to its value in 0..29, and so does the
\* identifier the loop holds; the release instant is constructed only for a
\* year in [2015, current year] and a day in 1..25, which is a date of
\* December; no state has panicked.
C18_NoPanic ==
    /\ pc = "idle" =>
          \A a \in {"0", "1", "2"}, b \in Digits :
              /\ DAY_REGEX_is_match(<<"d", "a", "y", a, b>>)
              /\ parse_i8(DayDigits(<<"d", "a", "y", a, b>>))
                    = 10 * DigitVal(a) + DigitVal(b)
              /\ parse_i8(DayDigits(<<"d", "a", "y", a, b>>)) \in 0..29
    /\ pc # "panic"
    /\ result # "Panic"
    /\ pc \in {"validate_day", "release_gate", "request", "write"} =>
          /\ LexicalDay(day)
          /\ parse_i8(DayDigits(day)) \in 0..29
    /\ pc \in {"release_gate", "request", "write"} =>
          /\ year >= 2015
          /\ year <= ZonedYear(today)
          /\ n \in 1..25
          /\ n = StemDay(day)
          /\ ValidCivilDate(year, 12, n)

\* the release instant of day 13 is about to be constructed in a run that
\* has rejected day 0
C18_Witness ==
    /\ pc = "release_gate"
    /\ n = 13
    /\ \E e \in DOMAIN status :
          status[e] = "OutOfRange" /\ StemDay(Ident(e)) = 0

====
